---- MODULE Spec2Model ----
(***************************************************************************)
(* A model of libsmarter's counting/disposal engine (smarter.hpp):         *)
(* counter, meta_object (the dual-counter cell), shared_ptr and weak_ptr.  *)
(*                                                                         *)
(* Pointers are small integers: nullptr is 0, a value pointer is the       *)
(* number of its cell, and the two counter facets of cell c are the        *)
(* numbers memory_ctr(c) and object_ctr(c).  The handle objects of the     *)
(* program are kept as a bag: handles[v] is the number of live handle      *)
(* objects whose fields are v; a handle an operation is running on is      *)
(* held in that thread's locals meanwhile.  An unsigned count is kept as   *)
(* its representative modulo 2^32 nearest to zero, so that a count n < 0   *)
(* stands for 2^32 + n (the result of an underflow).  assert() is taken    *)
(* to be compiled in: a failing assertion aborts the whole program.        *)
(***************************************************************************)
EXTENDS Integers, FiniteSets, Sequences, TLC

\* Bounds of the model.
NumThreads == 2
NumCells == 1
MaxHandles == 4
Clones == 3

nullptr == 0

Threads == 1..NumThreads
Cells == 1..NumCells

VARIABLES
    _count,      \* counter::_count of every counter facet
    _holder,     \* counter::_holder of every counter facet
    allocated,   \* allocated[c]: new meta_object has run for cell c
    destructed,  \* destructed[c]: how often box::destruct ran on cell c
    freed,       \* freed[c]: how often `delete this` ran on cell c
    handles,     \* the bag of idle handle objects (shared_ptr, weak_ptr)
    pc,          \* pc[t]: the statement thread t is about to execute
    loc,         \* loc[t]: the local variables of thread t's operation
    raw,         \* cells whose (T *, counter *) pair the caller holds raw
    aborted,     \* an assert() of the library has failed
    uaf,         \* a field of a deallocated cell has been accessed
    script       \* position of the scenario of SpecScenario

vars == <<_count, _holder, allocated, destructed, freed, handles, pc, loc,
          raw, aborted, uaf, script>>

----------------------------------------------------------------------------
\* meta_object: the two counter facets of a cell.

memory_ctr(c) == 2 * c - 1

object_ctr(c) == 2 * c

Ctrs == 1..(2 * NumCells)

cell_of(ctr) == (ctr + 1) \div 2

is_object_ctr(ctr) == ctr % 2 = 0

\* The fields of a handle object.
shared_ptr(object, ctr) == [kind |-> "shared", _object |-> object, _ctr |-> ctr]

weak_ptr(object, ctr) == [kind |-> "weak", _object |-> object, _ctr |-> ctr]

NoHandle == [kind |-> "none", _object |-> nullptr, _ctr |-> nullptr]

HandleValues ==
    [kind : {"shared", "weak"}, _object : {nullptr} \cup Cells,
     _ctr : {nullptr} \cup Ctrs]

\* The locals of a thread's operation: ctr, h and count are those of the
\* counter operation it is in; self is the handle object the operation runs
\* on, other the by-value parameter of an assignment, ret says that a handle
\* object is reserved for the result.
NoLocals ==
    [ctr |-> nullptr, h |-> nullptr, count |-> 0, self |-> NoHandle,
     other |-> NoHandle, ret |-> FALSE]

Init ==
    /\ _count = [k \in Ctrs |-> 0]
    /\ _holder = [k \in Ctrs |-> nullptr]
    /\ allocated = [c \in Cells |-> FALSE]
    /\ destructed = [c \in Cells |-> 0]
    /\ freed = [c \in Cells |-> 0]
    /\ handles = [v \in HandleValues |-> 0]
    /\ pc = [t \in Threads |-> "idle"]
    /\ loc = [t \in Threads |-> NoLocals]
    /\ raw = {}
    /\ aborted = FALSE
    /\ uaf = FALSE
    /\ script = 0

----------------------------------------------------------------------------
\* Helpers of the model.

\* The counter's fields live in the cell's allocation.
live(ctr) == allocated[cell_of(ctr)] /\ freed[cell_of(ctr)] = 0

\* The program runs until an assertion fails or it uses a deallocated cell:
\* from the first use after free on, its behaviour is undefined, and the
\* model records the fact (uaf) and follows it no further.
running == ~aborted /\ ~uaf

\* What a read of a field yields: the field, or anything once the cell is
\* deallocated (a use after free).
observed_count(ctr) == IF live(ctr) THEN {_count[ctr]} ELSE {0, 1, 2}

observed_holder(ctr) ==
    IF live(ctr) THEN {_holder[ctr]} ELSE {nullptr, memory_ctr(cell_of(ctr))}

RECURSIVE bag_size(_, _)
bag_size(bag, values) ==
    IF values = {} THEN 0
    ELSE LET v == CHOOSE x \in values : TRUE
         IN bag[v] + bag_size(bag, values \ {v})

\* The handle objects in existence: the idle ones, the ones an operation is
\* running on, and the ones an operation is about to return.
handle_objects ==
    bag_size(handles, {v \in HandleValues : handles[v] > 0})
        + Cardinality({t \in Threads : loc[t].self # NoHandle})
        + Cardinality({t \in Threads : loc[t].other # NoHandle})
        + Cardinality({t \in Threads : loc[t].ret})

\* The handle objects the program may have at a time: MaxHandles, and in
\* the scenario (script > 0) room for the original handle, its clones and
\* the Weak Handle.
Capacity == IF script = 0 THEN MaxHandles ELSE Clones + 2

room == handle_objects < Capacity

put(bag, v) == [bag EXCEPT ![v] = @ + 1]

take(bag, v) == [bag EXCEPT ![v] = @ - 1]

return(t) ==
    /\ pc' = [pc EXCEPT ![t] = "idle"]
    /\ loc' = [loc EXCEPT ![t] = NoLocals]

\* unsigned comparison `count > 1`
greater_one(count) == count < 0 \/ count > 1

----------------------------------------------------------------------------
\* counter

\* A bug: the increment without its assert.
increment_unchecked(ctr) ==
    /\ _count' = [_count EXCEPT ![ctr] = @ + 1]
    /\ aborted' = FALSE
    /\ uaf' = uaf

\* A bug: the increment is lost (a load and a store of the same value).
increment_lost(ctr) ==
    /\ _count' = _count
    /\ aborted' = (_count[ctr] = 0)
    /\ uaf' = uaf

\* counter::increment: fetch_add(1), then assert(count).
increment(ctr) ==
    IF live(ctr)
    THEN /\ _count' = [_count EXCEPT ![ctr] = @ + 1]
         /\ aborted' = (_count[ctr] = 0)
         /\ uaf' = uaf
    ELSE /\ _count' = _count
         /\ aborted' \in BOOLEAN
         /\ uaf' = TRUE

\* A bug: the result of fetch_sub is taken for the new count, not the old
\* one.
decrement_after_new_count(count) ==
    IF greater_one(count - 1) THEN "return"
    ELSE IF count - 1 # 1 THEN "abort"
    ELSE "decrement_76"

\* A bug: `if(count > 2) return;` and no assert.
decrement_after_off_by_one(count) ==
    IF count < 0 \/ count > 2 THEN "return" ELSE "decrement_76"

\* A bug: `if(count > 0) return;`.
decrement_after_skips_dispose(count) ==
    IF count # 0 THEN "return" ELSE "abort"

\* The statement decrement() goes to after its fetch_sub returned `count`.
decrement_after(count) ==
    IF greater_one(count) THEN "return"
    ELSE IF count # 1 THEN "abort"
    ELSE "decrement_76"

\* counter::decrement up to its assert: fetch_sub(1), `if(count > 1) return`,
\* assert(count == 1).
decrement(t, ctr) ==
    \E count \in observed_count(ctr) :
        /\ _count' = IF live(ctr) THEN [_count EXCEPT ![ctr] = @ - 1] ELSE _count
        /\ uaf' = (uaf \/ ~live(ctr))
        /\ aborted' = (decrement_after(count) = "abort")
        /\ IF decrement_after(count) = "decrement_76"
           THEN /\ pc' = [pc EXCEPT ![t] = "decrement_76"]
                /\ loc' = [loc EXCEPT ![t] = [NoLocals EXCEPT !.ctr = ctr]]
           ELSE return(t)

\* A bug: `dispose(); auto h = _holder;`, the holder read after the
\* disposal (which has deallocated the cell if this is the memory facet).
decrement_76_reads_after_dispose(t) ==
    /\ running
    /\ pc[t] = "decrement_76"
    /\ destructed' = IF is_object_ctr(loc[t].ctr)
                     THEN [destructed EXCEPT ![cell_of(loc[t].ctr)] = @ + 1]
                     ELSE destructed
    /\ freed' = IF is_object_ctr(loc[t].ctr)
                THEN freed
                ELSE [freed EXCEPT ![cell_of(loc[t].ctr)] = @ + 1]
    /\ \E h \in IF is_object_ctr(loc[t].ctr)
                THEN {_holder[loc[t].ctr]}
                ELSE {nullptr, memory_ctr(cell_of(loc[t].ctr))} :
           loc' = [loc EXCEPT ![t].h = h]
    /\ uaf' = (uaf \/ ~is_object_ctr(loc[t].ctr))
    /\ pc' = [pc EXCEPT ![t] = "decrement_81"]
    /\ UNCHANGED <<_count, _holder, allocated, handles, raw, aborted>>

\* `auto h = _holder;`
decrement_76(t) ==
    /\ running
    /\ pc[t] = "decrement_76"
    /\ \E h \in observed_holder(loc[t].ctr) :
           loc' = [loc EXCEPT ![t].h = h]
    /\ uaf' = (uaf \/ ~live(loc[t].ctr))
    /\ pc' = [pc EXCEPT ![t] = "decrement_78"]
    /\ UNCHANGED <<_count, _holder, allocated, destructed, freed, handles,
                   raw, aborted>>

\* meta_object::dispose(dispose_object): _bx.destruct().
dispose_object(c) ==
    /\ destructed' = [destructed EXCEPT ![c] = @ + 1]
    /\ UNCHANGED <<freed, aborted>>

\* meta_object::dispose(dispose_memory): delete this, which runs ~counter on
\* both facets (assert(!_count)) and gives the allocation back.
dispose_memory(c) ==
    /\ aborted' = (_count[memory_ctr(c)] # 0 \/ _count[object_ctr(c)] # 0)
    /\ freed' = IF aborted' THEN freed ELSE [freed EXCEPT ![c] = @ + 1]
    /\ UNCHANGED destructed

\* `dispose();`: the virtual call, dispatched by the facet.
decrement_78(t) ==
    /\ running
    /\ pc[t] = "decrement_78"
    /\ IF is_object_ctr(loc[t].ctr)
       THEN dispose_object(cell_of(loc[t].ctr))
       ELSE dispose_memory(cell_of(loc[t].ctr))
    /\ uaf' = (uaf \/ ~live(loc[t].ctr))
    /\ pc' = [pc EXCEPT ![t] = "decrement_81"]
    /\ UNCHANGED <<_count, _holder, allocated, handles, loc, raw>>

\* `if(h) h->decrement();`
decrement_81(t) ==
    /\ running
    /\ pc[t] = "decrement_81"
    /\ IF loc[t].h # nullptr
       THEN decrement(t, loc[t].h)
       ELSE return(t) /\ UNCHANGED <<_count, aborted, uaf>>
    /\ UNCHANGED <<_holder, allocated, destructed, freed, handles, raw>>

\* A bug: no test for zero, so that a dead counter is incremented.
increment_if_nonzero_61_blind(count) == "cas"

\* counter::increment_if_nonzero, from the failed or first load of `count`:
\* `if(!count) return false;` else on to the compare_exchange.
increment_if_nonzero_61(count) == IF count = 0 THEN "false" ELSE "cas"

----------------------------------------------------------------------------
\* meta_object and make_shared

\* A bug: the memory facet starts at 0, without the claim the object facet
\* gives back.
meta_object_count_no_latent(c, initial_count) ==
    [_count EXCEPT ![memory_ctr(c)] = 0, ![object_ctr(c)] = initial_count]

\* meta_object::meta_object: the memory facet starts at 1 with no holder, the
\* object facet at initial_count with the memory facet as its holder.
meta_object_count(c, initial_count) ==
    [_count EXCEPT ![memory_ctr(c)] = 1, ![object_ctr(c)] = initial_count]

meta_object_holder(c) ==
    [_holder EXCEPT ![memory_ctr(c)] = nullptr, ![object_ctr(c)] = memory_ctr(c)]

make_shared(t) ==
    /\ running
    /\ pc[t] = "idle"
    /\ room
    /\ \E c \in Cells :
        /\ ~allocated[c]
        /\ \A d \in Cells : d < c => allocated[d]
        /\ allocated' = [allocated EXCEPT ![c] = TRUE]
        /\ _count' = meta_object_count(c, 1)
        /\ _holder' = meta_object_holder(c)
        /\ handles' = put(handles, shared_ptr(c, object_ctr(c)))
    /\ UNCHANGED <<destructed, freed, pc, loc, raw, aborted, uaf>>

----------------------------------------------------------------------------
\* shared_ptr

\* shared_ptr(const shared_ptr &other)
\* A bug: the copy constructor copies the pointers without an increment.
shared_ptr_copy_shares_claim(t, other) ==
    /\ running
    /\ pc[t] = "idle"
    /\ other.kind = "shared"
    /\ handles[other] > 0
    /\ room
    /\ handles' = put(handles, shared_ptr(other._object, other._ctr))
    /\ UNCHANGED <<_count, _holder, allocated, destructed, freed, pc, loc, raw,
                   aborted, uaf>>

shared_ptr_copy(t, other) ==
    /\ running
    /\ pc[t] = "idle"
    /\ other.kind = "shared"
    /\ handles[other] > 0
    /\ room
    /\ IF other._ctr # nullptr
       THEN increment(other._ctr)
       ELSE UNCHANGED <<_count, aborted, uaf>>
    /\ handles' = IF aborted' THEN handles
                  ELSE put(handles, shared_ptr(other._object, other._ctr))
    /\ UNCHANGED <<_holder, allocated, destructed, freed, pc, loc, raw>>

\* A bug: the move constructor copies, and then nulls the source without a
\* decrement.
shared_ptr_move_increments(t, other) ==
    /\ running
    /\ pc[t] = "idle"
    /\ other.kind = "shared"
    /\ handles[other] > 0
    /\ room
    /\ IF other._ctr # nullptr
       THEN increment(other._ctr)
       ELSE UNCHANGED <<_count, aborted, uaf>>
    /\ handles' = put(put(take(handles, other), shared_ptr(nullptr, nullptr)),
                      shared_ptr(other._object, other._ctr))
    /\ UNCHANGED <<_holder, allocated, destructed, freed, pc, loc, raw>>

\* A bug: the move leaves the source as it was.
shared_ptr_move_keeps_source(t, other) ==
    /\ running
    /\ pc[t] = "idle"
    /\ other.kind = "shared"
    /\ handles[other] > 0
    /\ room
    /\ handles' = put(handles, shared_ptr(other._object, other._ctr))
    /\ UNCHANGED <<_count, _holder, allocated, destructed, freed, pc, loc, raw,
                   aborted, uaf>>

\* shared_ptr(shared_ptr &&other): a default-constructed handle, swapped
\* with other.
shared_ptr_move(t, other) ==
    /\ running
    /\ pc[t] = "idle"
    /\ other.kind = "shared"
    /\ handles[other] > 0
    /\ room
    /\ handles' = put(put(take(handles, other), shared_ptr(nullptr, nullptr)),
                      shared_ptr(other._object, other._ctr))
    /\ UNCHANGED <<_count, _holder, allocated, destructed, freed, pc, loc, raw,
                   aborted, uaf>>

\* ~shared_ptr
shared_ptr_dtor(t, self) ==
    /\ running
    /\ pc[t] = "idle"
    /\ self.kind = "shared"
    /\ handles[self] > 0
    /\ handles' = take(handles, self)
    /\ IF self._ctr # nullptr
       THEN decrement(t, self._ctr)
       ELSE UNCHANGED <<_count, pc, loc, aborted, uaf>>
    /\ UNCHANGED <<_holder, allocated, destructed, freed, raw>>

\* a = b on Strong Handles, up to the swap: `shared_ptr &operator=
\* (shared_ptr other)` takes its argument by value, so b is first copied
\* into the parameter (the copy constructor: an increment).  self is a,
\* other is b; they may be the same object (a = a) when self = other.
shared_ptr_assign_copy(t, self, other) ==
    /\ running
    /\ pc[t] = "idle"
    /\ self.kind = "shared"
    /\ other.kind = "shared"
    /\ handles[self] > 0
    /\ handles[other] > 0
    /\ room
    /\ IF other._ctr # nullptr
       THEN increment(other._ctr)
       ELSE UNCHANGED <<_count, aborted, uaf>>
    /\ IF aborted'
       THEN UNCHANGED <<handles, pc, loc>>
       ELSE /\ handles' = take(handles, self)
            /\ pc' = [pc EXCEPT ![t] = "operator=_247"]
            /\ loc' = [loc EXCEPT ![t] =
                          [NoLocals EXCEPT
                              !.self = self,
                              !.other = shared_ptr(other._object, other._ctr)]]
    /\ UNCHANGED <<_holder, allocated, destructed, freed, raw>>

\* A bug: the assignment stores the parameter's pointers and forgets the
\* claim that a held.
shared_ptr_assign_247_leaks(t) ==
    /\ running
    /\ pc[t] = "operator=_247"
    /\ loc[t].self.kind = "shared"
    /\ handles' = put(handles, loc[t].other)
    /\ return(t)
    /\ UNCHANGED <<_count, _holder, allocated, destructed, freed, raw, aborted,
                   uaf>>

\* `swap(*this, other); return *this;` and the destruction of the
\* parameter, which now has the pointers a had: a becomes a handle with the
\* parameter's pointers, and ~shared_ptr runs on a's former pointers.
shared_ptr_assign_247(t) ==
    /\ running
    /\ pc[t] = "operator=_247"
    /\ loc[t].self.kind = "shared"
    /\ handles' = put(handles, loc[t].other)
    /\ IF loc[t].self._ctr # nullptr
       THEN decrement(t, loc[t].self._ctr)
       ELSE return(t) /\ UNCHANGED <<_count, aborted, uaf>>
    /\ UNCHANGED <<_holder, allocated, destructed, freed, raw>>

\* a = std::move(b) on Strong Handles: the parameter is move-constructed
\* from b (b is left null, no counter is touched), swapped with a and
\* destroyed with a's former pointers.  With same, a and b are one object
\* (a = std::move(a)): it gets its pointers back from the parameter, which is
\* destroyed null.
shared_ptr_assign_move(t, self, other, same) ==
    /\ running
    /\ pc[t] = "idle"
    /\ self.kind = "shared"
    /\ other.kind = "shared"
    /\ IF same
       THEN /\ self = other
            /\ handles[self] > 0
            /\ UNCHANGED <<_count, handles, pc, loc, aborted, uaf>>
       ELSE /\ handles[self] > 0
            /\ handles[other] > (IF self = other THEN 1 ELSE 0)
            /\ handles' = put(put(take(take(handles, self), other),
                                  shared_ptr(nullptr, nullptr)),
                              shared_ptr(other._object, other._ctr))
            /\ IF self._ctr # nullptr
               THEN decrement(t, self._ctr)
               ELSE UNCHANGED <<_count, pc, loc, aborted, uaf>>
    /\ UNCHANGED <<_holder, allocated, destructed, freed, raw>>

\* A bug: the cast copies its argument instead of taking its claim over.
static_pointer_cast_copies(t, other) ==
    /\ running
    /\ pc[t] = "idle"
    /\ other.kind = "shared"
    /\ handles[other] > 0
    /\ room
    /\ IF other._ctr # nullptr
       THEN increment(other._ctr)
       ELSE UNCHANGED <<_count, aborted, uaf>>
    /\ handles' = IF aborted' THEN handles
                  ELSE put(handles, shared_ptr(other._object, other._ctr))
    /\ UNCHANGED <<_holder, allocated, destructed, freed, pc, loc, raw>>

\* static_pointer_cast<X>(shared_ptr<T, H> other): `other` is the by-value
\* parameter, a handle object of its own that the caller made by copy or by
\* move and destroys after the call.  other.release() nulls it; the pair
\* (static_cast<X *>(object) points to the same value) is adopted into the
\* result.
static_pointer_cast(t, other) ==
    /\ running
    /\ pc[t] = "idle"
    /\ other.kind = "shared"
    /\ handles[other] > 0
    /\ room
    /\ LET released == put(take(handles, other), shared_ptr(nullptr, nullptr))
       IN handles' = put(released, shared_ptr(other._object, other._ctr))
    /\ UNCHANGED <<_count, _holder, allocated, destructed, freed, pc, loc, raw,
                   aborted, uaf>>

\* handle_cast(shared_ptr<T, L> other): a default-constructed p takes both
\* fields of the parameter by std::swap, and is moved into the result.
handle_cast(t, other) ==
    /\ running
    /\ pc[t] = "idle"
    /\ other.kind = "shared"
    /\ handles[other] > 0
    /\ room
    /\ LET p == shared_ptr(nullptr, nullptr)
           swapped == put(take(handles, other), shared_ptr(p._object, p._ctr))
       IN handles' = put(swapped, shared_ptr(other._object, other._ctr))
    /\ UNCHANGED <<_count, _holder, allocated, destructed, freed, pc, loc, raw,
                   aborted, uaf>>

\* shared_ptr(shared_ptr<X, H> other): both fields are taken by
\* std::exchange(..., nullptr).
shared_ptr_convert(t, other) ==
    /\ running
    /\ pc[t] = "idle"
    /\ other.kind = "shared"
    /\ handles[other] > 0
    /\ room
    /\ handles' = put(put(take(handles, other), shared_ptr(nullptr, nullptr)),
                      shared_ptr(other._object, other._ctr))
    /\ UNCHANGED <<_count, _holder, allocated, destructed, freed, pc, loc, raw,
                   aborted, uaf>>

----------------------------------------------------------------------------
\* weak_ptr

\* A bug: the Weak Handle claims the counter itself (`_ctr->increment()`),
\* not its holder.
weak_ptr_from_shared_claims_object(t, ptr) ==
    /\ running
    /\ pc[t] = "idle"
    /\ ptr.kind = "shared"
    /\ handles[ptr] > 0
    /\ ptr._ctr # nullptr
    /\ room
    /\ increment(ptr._ctr)
    /\ handles' = IF aborted' THEN handles
                  ELSE put(handles, weak_ptr(ptr._object, ptr._ctr))
    /\ UNCHANGED <<_holder, allocated, destructed, freed, pc, loc, raw>>

\* A bug: `if(_ctr->holder()) _ctr->holder()->increment();` in place of the
\* assert.
weak_ptr_from_shared_no_assert(t, ptr) ==
    /\ running
    /\ pc[t] = "idle"
    /\ ptr.kind = "shared"
    /\ handles[ptr] > 0
    /\ ptr._ctr # nullptr
    /\ room
    /\ \E holder \in observed_holder(ptr._ctr) :
        IF holder = nullptr
        THEN /\ handles' = put(handles, weak_ptr(ptr._object, ptr._ctr))
             /\ uaf' = (uaf \/ ~live(ptr._ctr))
             /\ UNCHANGED <<_count, aborted>>
        ELSE /\ increment(holder)
             /\ handles' = IF aborted' THEN handles
                           ELSE put(handles, weak_ptr(ptr._object, ptr._ctr))
    /\ UNCHANGED <<_holder, allocated, destructed, freed, pc, loc, raw>>

\* weak_ptr(const shared_ptr<T, H> &ptr), for a non-null ptr (a null ptr is
\* dereferenced by `_ctr->holder()`).
weak_ptr_from_shared(t, ptr) ==
    /\ running
    /\ pc[t] = "idle"
    /\ ptr.kind = "shared"
    /\ handles[ptr] > 0
    /\ ptr._ctr # nullptr
    /\ room
    /\ \E holder \in observed_holder(ptr._ctr) :
        IF holder = nullptr
        THEN /\ aborted' = TRUE
             /\ uaf' = (uaf \/ ~live(ptr._ctr))
             /\ UNCHANGED <<_count, handles>>
        ELSE /\ increment(holder)
             /\ handles' = IF aborted' THEN handles
                           ELSE put(handles, weak_ptr(ptr._object, ptr._ctr))
    /\ UNCHANGED <<_holder, allocated, destructed, freed, pc, loc, raw>>

\* weak_ptr(const weak_ptr &other).  Its initializers name other.object and
\* other.ctr, which weak_ptr does not have; they are read here as the
\* fields _object and _ctr.
weak_ptr_copy(t, other) ==
    /\ running
    /\ pc[t] = "idle"
    /\ other.kind = "weak"
    /\ handles[other] > 0
    /\ room
    /\ IF other._ctr = nullptr
       THEN /\ handles' = put(handles, weak_ptr(nullptr, nullptr))
            /\ UNCHANGED <<_count, aborted, uaf>>
       ELSE \E holder \in observed_holder(other._ctr) :
            IF holder = nullptr
            THEN /\ aborted' = TRUE
                 /\ uaf' = (uaf \/ ~live(other._ctr))
                 /\ UNCHANGED <<_count, handles>>
            ELSE /\ increment(holder)
                 /\ handles' = IF aborted' THEN handles
                               ELSE put(handles, weak_ptr(other._object, other._ctr))
    /\ UNCHANGED <<_holder, allocated, destructed, freed, pc, loc, raw>>

\* A bug: the move leaves the source as it was.
weak_ptr_move_keeps_source(t, other) ==
    /\ running
    /\ pc[t] = "idle"
    /\ other.kind = "weak"
    /\ handles[other] > 0
    /\ room
    /\ handles' = put(handles, weak_ptr(other._object, other._ctr))
    /\ UNCHANGED <<_count, _holder, allocated, destructed, freed, pc, loc, raw,
                   aborted, uaf>>

\* weak_ptr(weak_ptr &&other)
weak_ptr_move(t, other) ==
    /\ running
    /\ pc[t] = "idle"
    /\ other.kind = "weak"
    /\ handles[other] > 0
    /\ room
    /\ handles' = put(put(take(handles, other), weak_ptr(nullptr, nullptr)),
                      weak_ptr(other._object, other._ctr))
    /\ UNCHANGED <<_count, _holder, allocated, destructed, freed, pc, loc, raw,
                   aborted, uaf>>

\* ~weak_ptr
weak_ptr_dtor(t, self) ==
    /\ running
    /\ pc[t] = "idle"
    /\ self.kind = "weak"
    /\ handles[self] > 0
    /\ handles' = take(handles, self)
    /\ IF self._ctr = nullptr
       THEN UNCHANGED <<_count, pc, loc, aborted, uaf>>
       ELSE \E holder \in observed_holder(self._ctr) :
            IF holder = nullptr
            THEN /\ aborted' = TRUE
                 /\ uaf' = (uaf \/ ~live(self._ctr))
                 /\ UNCHANGED <<_count, pc, loc>>
            ELSE decrement(t, holder)
    /\ UNCHANGED <<_holder, allocated, destructed, freed, raw>>

\* a = b on Weak Handles, up to the swap: the by-value parameter is made by
\* the copy constructor (an increment of the holder).
weak_ptr_assign_copy(t, self, other) ==
    /\ running
    /\ pc[t] = "idle"
    /\ self.kind = "weak"
    /\ other.kind = "weak"
    /\ handles[self] > 0
    /\ handles[other] > 0
    /\ room
    /\ IF other._ctr = nullptr
       THEN UNCHANGED <<_count, aborted, uaf>>
       ELSE \E holder \in observed_holder(other._ctr) :
            IF holder = nullptr
            THEN /\ aborted' = TRUE
                 /\ uaf' = (uaf \/ ~live(other._ctr))
                 /\ UNCHANGED _count
            ELSE increment(holder)
    /\ IF aborted'
       THEN UNCHANGED <<handles, pc, loc>>
       ELSE /\ handles' = take(handles, self)
            /\ pc' = [pc EXCEPT ![t] = "operator=_324"]
            /\ loc' = [loc EXCEPT ![t] =
                          [NoLocals EXCEPT
                              !.self = self,
                              !.other = weak_ptr(other._object, other._ctr)]]
    /\ UNCHANGED <<_holder, allocated, destructed, freed, raw>>

\* `swap(*this, other); return *this;` and the destruction of the
\* parameter with a's former pointers (~weak_ptr).
weak_ptr_assign_324(t) ==
    /\ running
    /\ pc[t] = "operator=_324"
    /\ loc[t].self.kind = "weak"
    /\ handles' = put(handles, loc[t].other)
    /\ IF loc[t].self._ctr = nullptr
       THEN return(t) /\ UNCHANGED <<_count, aborted, uaf>>
       ELSE \E holder \in observed_holder(loc[t].self._ctr) :
            IF holder = nullptr
            THEN /\ aborted' = TRUE
                 /\ uaf' = (uaf \/ ~live(loc[t].self._ctr))
                 /\ UNCHANGED <<_count, pc, loc>>
            ELSE decrement(t, holder)
    /\ UNCHANGED <<_holder, allocated, destructed, freed, raw>>

\* a = std::move(b) on Weak Handles; with same, a = std::move(a).
weak_ptr_assign_move(t, self, other, same) ==
    /\ running
    /\ pc[t] = "idle"
    /\ self.kind = "weak"
    /\ other.kind = "weak"
    /\ IF same
       THEN /\ self = other
            /\ handles[self] > 0
            /\ UNCHANGED <<_count, handles, pc, loc, aborted, uaf>>
       ELSE /\ handles[self] > 0
            /\ handles[other] > (IF self = other THEN 1 ELSE 0)
            /\ handles' = put(put(take(take(handles, self), other),
                                  weak_ptr(nullptr, nullptr)),
                              weak_ptr(other._object, other._ctr))
            /\ IF self._ctr = nullptr
               THEN UNCHANGED <<_count, pc, loc, aborted, uaf>>
               ELSE \E holder \in observed_holder(self._ctr) :
                    IF holder = nullptr
                    THEN /\ aborted' = TRUE
                         /\ uaf' = (uaf \/ ~live(self._ctr))
                         /\ UNCHANGED <<_count, pc, loc>>
                    ELSE decrement(t, holder)
    /\ UNCHANGED <<_holder, allocated, destructed, freed, raw>>

\* weak_ptr::lock up to the first test of increment_if_nonzero: a null
\* weak_ptr gives a null shared_ptr; else `count` is loaded and tested.
lock(t, self) ==
    /\ running
    /\ pc[t] = "idle"
    /\ self.kind = "weak"
    /\ handles[self] > 0
    /\ room
    /\ IF self._ctr = nullptr
       THEN /\ handles' = put(handles, shared_ptr(nullptr, nullptr))
            /\ UNCHANGED <<pc, loc, uaf>>
       ELSE \E count \in observed_count(self._ctr) :
            /\ uaf' = (uaf \/ ~live(self._ctr))
            /\ IF increment_if_nonzero_61(count) = "false"
               THEN /\ handles' = put(handles, shared_ptr(nullptr, nullptr))
                    /\ UNCHANGED <<pc, loc>>
               ELSE /\ pc' = [pc EXCEPT ![t] = "increment_if_nonzero_63"]
                    /\ loc' = [loc EXCEPT ![t] =
                                  [NoLocals EXCEPT !.ctr = self._ctr,
                                                   !.count = count,
                                                   !.self = self,
                                                   !.ret = TRUE]]
                    /\ handles' = take(handles, self)
    /\ UNCHANGED <<_count, _holder, allocated, destructed, freed, raw, aborted>>

\* A bug: a plain store of count + 1 in place of the compare-and-swap.
increment_if_nonzero_63_store(t) ==
    /\ running
    /\ pc[t] = "increment_if_nonzero_63"
    /\ _count' = [_count EXCEPT ![loc[t].ctr] = loc[t].count + 1]
    /\ handles' = put(put(handles, loc[t].self),
                      shared_ptr(loc[t].self._object, loc[t].ctr))
    /\ return(t)
    /\ UNCHANGED <<_holder, allocated, destructed, freed, raw, aborted, uaf>>

\* A bug: a failed compare-and-swap leaves `count` as it was (the expected
\* value is not reloaded), and the loop tries the same exchange again.
increment_if_nonzero_63_stale(t) ==
    /\ running
    /\ pc[t] = "increment_if_nonzero_63"
    /\ \E current \in observed_count(loc[t].ctr) :
        /\ uaf' = (uaf \/ ~live(loc[t].ctr))
        /\ IF current = loc[t].count
           THEN /\ _count' = IF live(loc[t].ctr)
                             THEN [_count EXCEPT ![loc[t].ctr] = @ + 1]
                             ELSE _count
                /\ handles' = put(put(handles, loc[t].self),
                                  shared_ptr(loc[t].self._object, loc[t].ctr))
                /\ return(t)
           ELSE UNCHANGED <<_count, handles, pc, loc>>
    /\ UNCHANGED <<_holder, allocated, destructed, freed, raw, aborted>>

\* The compare_exchange_strong of increment_if_nonzero and what lock() does
\* with its result: on success the pair is adopted into the returned
\* shared_ptr; on failure `count` is reloaded and tested again.
increment_if_nonzero_63(t) ==
    /\ running
    /\ pc[t] = "increment_if_nonzero_63"
    /\ \E current \in observed_count(loc[t].ctr) :
        /\ uaf' = (uaf \/ ~live(loc[t].ctr))
        /\ IF current = loc[t].count
           THEN /\ _count' = IF live(loc[t].ctr)
                             THEN [_count EXCEPT ![loc[t].ctr] = @ + 1]
                             ELSE _count
                /\ handles' = put(put(handles, loc[t].self),
                                  shared_ptr(loc[t].self._object, loc[t].ctr))
                /\ return(t)
           ELSE IF increment_if_nonzero_61(current) = "false"
           THEN /\ handles' = put(put(handles, loc[t].self),
                                  shared_ptr(nullptr, nullptr))
                /\ return(t)
                /\ UNCHANGED _count
           ELSE /\ loc' = [loc EXCEPT ![t].count = current]
                /\ UNCHANGED <<_count, handles, pc>>
    /\ UNCHANGED <<_holder, allocated, destructed, freed, raw, aborted>>

----------------------------------------------------------------------------
\* The program: any thread runs any operation of the factory-based API.

Next ==
    \E t \in Threads :
        \/ make_shared(t) /\ UNCHANGED script
        \/ \E v \in HandleValues : shared_ptr_copy(t, v) /\ UNCHANGED script
        \/ \E v \in HandleValues : shared_ptr_move(t, v) /\ UNCHANGED script
        \/ \E v \in HandleValues : shared_ptr_dtor(t, v) /\ UNCHANGED script
        \/ \E v \in HandleValues : weak_ptr_from_shared(t, v) /\ UNCHANGED script
        \/ \E v \in HandleValues : weak_ptr_copy(t, v) /\ UNCHANGED script
        \/ \E v \in HandleValues : weak_ptr_move(t, v) /\ UNCHANGED script
        \/ \E v \in HandleValues : weak_ptr_dtor(t, v) /\ UNCHANGED script
        \/ \E v \in HandleValues : lock(t, v) /\ UNCHANGED script
        \/ increment_if_nonzero_63(t) /\ UNCHANGED script
        \/ decrement_76(t) /\ UNCHANGED script
        \/ decrement_78(t) /\ UNCHANGED script
        \/ decrement_81(t) /\ UNCHANGED script

Spec == Init /\ [][Next]_vars

----------------------------------------------------------------------------
\* The program with the whole factory-based API: the casts, the converting
\* constructor and the assignments beside the operations of Next.

NextApi ==
    \E t \in Threads :
        \/ make_shared(t) /\ UNCHANGED script
        \/ \E v \in HandleValues : shared_ptr_copy(t, v) /\ UNCHANGED script
        \/ \E v \in HandleValues : shared_ptr_move(t, v) /\ UNCHANGED script
        \/ \E v \in HandleValues : shared_ptr_convert(t, v) /\ UNCHANGED script
        \/ \E v \in HandleValues : static_pointer_cast(t, v) /\ UNCHANGED script
        \/ \E v \in HandleValues : handle_cast(t, v) /\ UNCHANGED script
        \/ \E v, w \in HandleValues :
            shared_ptr_assign_copy(t, v, w) /\ UNCHANGED script
        \/ shared_ptr_assign_247(t) /\ UNCHANGED script
        \/ \E v, w \in HandleValues, same \in BOOLEAN :
            shared_ptr_assign_move(t, v, w, same) /\ UNCHANGED script
        \/ \E v, w \in HandleValues :
            weak_ptr_assign_copy(t, v, w) /\ UNCHANGED script
        \/ weak_ptr_assign_324(t) /\ UNCHANGED script
        \/ \E v, w \in HandleValues, same \in BOOLEAN :
            weak_ptr_assign_move(t, v, w, same) /\ UNCHANGED script
        \/ \E v \in HandleValues : shared_ptr_dtor(t, v) /\ UNCHANGED script
        \/ \E v \in HandleValues : weak_ptr_from_shared(t, v) /\ UNCHANGED script
        \/ \E v \in HandleValues : weak_ptr_copy(t, v) /\ UNCHANGED script
        \/ \E v \in HandleValues : weak_ptr_move(t, v) /\ UNCHANGED script
        \/ \E v \in HandleValues : weak_ptr_dtor(t, v) /\ UNCHANGED script
        \/ \E v \in HandleValues : lock(t, v) /\ UNCHANGED script
        \/ increment_if_nonzero_63(t) /\ UNCHANGED script
        \/ decrement_76(t) /\ UNCHANGED script
        \/ decrement_78(t) /\ UNCHANGED script
        \/ decrement_81(t) /\ UNCHANGED script

SpecApi == Init /\ [][NextApi]_vars

\* A step of thread t inside an operation it has begun.
proceed(t) ==
    /\ \/ increment_if_nonzero_63(t)
       \/ decrement_76(t)
       \/ decrement_78(t)
       \/ decrement_81(t)
       \/ shared_ptr_assign_247(t)
       \/ weak_ptr_assign_324(t)
    /\ UNCHANGED script

\* The same program with threads that do not stop inside an operation: a
\* thread that has begun an operation goes on taking its steps (a caller
\* need not begin another operation).
SpecFair ==
    /\ Init
    /\ [][NextApi]_vars
    /\ \A t \in Threads : WF_vars(proceed(t))

----------------------------------------------------------------------------
\* The low-level entry points: raw (T *, counter *) pairs in the caller's
\* hands.

\* shared_ptr::get and shared_ptr::ctr: the caller reads the pair.
get(t, self) ==
    /\ running
    /\ pc[t] = "idle"
    /\ self.kind = "shared"
    /\ handles[self] > 0
    /\ raw' = raw \cup {<<self._object, self._ctr>>}
    /\ UNCHANGED <<_count, _holder, allocated, destructed, freed, handles, pc,
                   loc, aborted, uaf>>

\* A bug: release() gives the claim up as the destructor does.
release_decrements(t, self) ==
    /\ running
    /\ pc[t] = "idle"
    /\ self.kind = "shared"
    /\ handles[self] > 0
    /\ <<self._object, self._ctr>> \notin raw
    /\ raw' = raw \cup {<<self._object, self._ctr>>}
    /\ handles' = put(take(handles, self), shared_ptr(nullptr, nullptr))
    /\ IF self._ctr # nullptr
       THEN decrement(t, self._ctr)
       ELSE UNCHANGED <<_count, pc, loc, aborted, uaf>>
    /\ UNCHANGED <<_holder, allocated, destructed, freed>>

\* shared_ptr::release: the pair is handed out and the handle nulled, with
\* no decrement.  (The caller holds a pair once: a pair it already holds is
\* not released to it again, which bounds the claims it can pile up.)
\* A release() that hands out both pointers but clears the value pointer
\* only.
release_keeps_ctr(t, self) ==
    /\ running
    /\ pc[t] = "idle"
    /\ self.kind = "shared"
    /\ handles[self] > 0
    /\ <<self._object, self._ctr>> \notin raw
    /\ raw' = raw \cup {<<self._object, self._ctr>>}
    /\ handles' = put(take(handles, self), shared_ptr(nullptr, self._ctr))
    /\ UNCHANGED <<_count, _holder, allocated, destructed, freed, pc, loc,
                   aborted, uaf>>

release(t, self) ==
    /\ running
    /\ pc[t] = "idle"
    /\ self.kind = "shared"
    /\ handles[self] > 0
    /\ <<self._object, self._ctr>> \notin raw
    /\ raw' = raw \cup {<<self._object, self._ctr>>}
    /\ handles' = put(take(handles, self), shared_ptr(nullptr, nullptr))
    /\ UNCHANGED <<_count, _holder, allocated, destructed, freed, pc, loc,
                   aborted, uaf>>

\* shared_ptr(adopt_rc_t, T *object, counter *ctr): no increment.
shared_ptr_adopt(t, pair) ==
    /\ running
    /\ pc[t] = "idle"
    /\ pair \in raw
    /\ room
    /\ handles' = put(handles, shared_ptr(pair[1], pair[2]))
    /\ UNCHANGED <<_count, _holder, allocated, destructed, freed, pc, loc, raw,
                   aborted, uaf>>

RawPairs == ({nullptr} \cup Cells) \X ({nullptr} \cup Ctrs)

\* The program with the low-level entry points: the caller may adopt any
\* pair it holds, claimed or not.
NextRaw ==
    \E t \in Threads :
        \/ make_shared(t) /\ UNCHANGED script
        \/ \E v \in HandleValues : shared_ptr_copy(t, v) /\ UNCHANGED script
        \/ \E v \in HandleValues : shared_ptr_move(t, v) /\ UNCHANGED script
        \/ \E v \in HandleValues : shared_ptr_dtor(t, v) /\ UNCHANGED script
        \/ \E v \in HandleValues : weak_ptr_from_shared(t, v) /\ UNCHANGED script
        \/ \E v \in HandleValues : weak_ptr_copy(t, v) /\ UNCHANGED script
        \/ \E v \in HandleValues : weak_ptr_move(t, v) /\ UNCHANGED script
        \/ \E v \in HandleValues : weak_ptr_dtor(t, v) /\ UNCHANGED script
        \/ \E v \in HandleValues : lock(t, v) /\ UNCHANGED script
        \/ increment_if_nonzero_63(t) /\ UNCHANGED script
        \/ decrement_76(t) /\ UNCHANGED script
        \/ decrement_78(t) /\ UNCHANGED script
        \/ decrement_81(t) /\ UNCHANGED script
        \/ \E v \in HandleValues : get(t, v) /\ UNCHANGED script
        \/ \E v \in HandleValues : release(t, v) /\ UNCHANGED script
        \/ \E pair \in RawPairs : shared_ptr_adopt(t, pair) /\ UNCHANGED script

SpecRaw == Init /\ [][NextRaw]_vars

\* operator bool () const: return _object.
operator_bool(self) == self._object # nullptr

\* The program of NextApi whose caller also calls release() and keeps the
\* pair, without adopting it.
NextRelease ==
    \/ NextApi
    \/ \E t \in Threads, v \in HandleValues : release(t, v) /\ UNCHANGED script

SpecRelease == Init /\ [][NextRelease]_vars

----------------------------------------------------------------------------
\* Bare counters: counter::holder() is public, so a caller that holds a pair
\* can read the holder of its counter (the memory facet, which has no holder
\* itself) and pair it with the object.

\* `ctr->holder()` on a pair the caller holds.
holder(t, pair) ==
    /\ running
    /\ pc[t] = "idle"
    /\ pair \in raw
    /\ pair[2] # nullptr
    /\ \E h \in observed_holder(pair[2]) :
        raw' = raw \cup {<<pair[1], h>>}
    /\ uaf' = (uaf \/ ~live(pair[2]))
    /\ UNCHANGED <<_count, _holder, allocated, destructed, freed, handles, pc,
                   loc, aborted>>

NextBare ==
    \/ NextRaw
    \/ \E t \in Threads, pair \in RawPairs : holder(t, pair) /\ UNCHANGED script

SpecBare == Init /\ [][NextBare]_vars

----------------------------------------------------------------------------
\* The scenario "holding a Weak Handle past the last Strong Handle": one
\* thread makes a cell, clones its Strong Handle Clones times, destroys the
\* clones, makes a Weak Handle, destroys the last Strong Handle, calls
\* lock() and destroys the Weak Handle.  From the destruction of the last
\* Strong Handle on, the other threads call lock() on the Weak Handle,
\* destroy the null handles they get, and copy the Weak Handle and destroy
\* their copies (the main thread's Weak Handle stays until it destroys it).

main_thread == CHOOSE t \in Threads : \A u \in Threads : t <= u

the_cell == CHOOSE c \in Cells : \A d \in Cells : c <= d

the_strong == shared_ptr(the_cell, object_ctr(the_cell))

the_weak == weak_ptr(the_cell, object_ctr(the_cell))

\* What the main thread does, in order.
Script ==
    <<"make_shared">>
        \o [i \in 1..Clones |-> "shared_ptr_copy"]
        \o [i \in 1..Clones |-> "shared_ptr_dtor"]
        \o <<"weak_ptr", "shared_ptr_dtor", "lock", "weak_ptr_dtor">>

\* The position of the first op in the script.
first(op) ==
    CHOOSE i \in DOMAIN Script :
        Script[i] = op /\ \A j \in 1..(i - 1) : Script[j] # op

\* The positions of the script: what the main thread does next.
at_make == first("make_shared")

at_clone == first("shared_ptr_copy")

at_destroy_clone == first("shared_ptr_dtor")

at_make_weak == first("weak_ptr")

at_destroy_last == at_make_weak + 1

at_lock == first("lock")

at_destroy_weak == first("weak_ptr_dtor")

at_end == Len(Script) + 1

\* The main thread is at op in its script, and moves on.
scripted(op) ==
    /\ script \in DOMAIN Script
    /\ Script[script] = op
    /\ script' = script + 1

InitScenario ==
    /\ _count = [k \in Ctrs |-> 0]
    /\ _holder = [k \in Ctrs |-> nullptr]
    /\ allocated = [c \in Cells |-> FALSE]
    /\ destructed = [c \in Cells |-> 0]
    /\ freed = [c \in Cells |-> 0]
    /\ handles = [v \in HandleValues |-> 0]
    /\ pc = [t \in Threads |-> "idle"]
    /\ loc = [t \in Threads |-> NoLocals]
    /\ raw = {}
    /\ aborted = FALSE
    /\ uaf = FALSE
    /\ script = at_make

NextScenario ==
    \/ scripted("make_shared") /\ make_shared(main_thread)
    \/ scripted("shared_ptr_copy") /\ shared_ptr_copy(main_thread, the_strong)
    \/ scripted("shared_ptr_dtor") /\ shared_ptr_dtor(main_thread, the_strong)
    \/ scripted("weak_ptr") /\ weak_ptr_from_shared(main_thread, the_strong)
    \/ scripted("lock") /\ lock(main_thread, the_weak)
    \/ scripted("weak_ptr_dtor") /\ weak_ptr_dtor(main_thread, the_weak)
    \/ \E t \in Threads : decrement_76(t) /\ UNCHANGED script
    \/ \E t \in Threads : decrement_78(t) /\ UNCHANGED script
    \/ \E t \in Threads : decrement_81(t) /\ UNCHANGED script
    \/ \E t \in Threads \ {main_thread} :
        /\ script >= at_lock
        /\ lock(t, the_weak)
        /\ UNCHANGED script
    \/ \E t \in Threads \ {main_thread} :
        /\ script >= at_lock
        /\ shared_ptr_dtor(t, shared_ptr(nullptr, nullptr))
        /\ UNCHANGED script
    \/ \E t \in Threads \ {main_thread} :
        /\ script >= at_lock
        /\ weak_ptr_copy(t, the_weak)
        /\ UNCHANGED script
    \/ \E t \in Threads \ {main_thread} :
        /\ script >= at_lock
        /\ handles[the_weak] >= 2 \/ script = at_end
        /\ weak_ptr_dtor(t, the_weak)
        /\ UNCHANGED script

SpecScenario == InitScenario /\ [][NextScenario]_vars

----------------------------------------------------------------------------
\* What the properties speak of.

\* How many live handle objects of the given kind ride on counter ctr: the
\* idle ones and the ones an operation is running on.
claims_on(kind, ctr) ==
    bag_size(handles, {v \in HandleValues :
                           v.kind = kind /\ v._ctr = ctr /\ handles[v] > 0})
        + Cardinality({t \in Threads :
                           loc[t].self.kind = kind /\ loc[t].self._ctr = ctr})
        + Cardinality({t \in Threads :
                           loc[t].other.kind = kind /\ loc[t].other._ctr = ctr})

\* The number of live non-null Strong Handles to cell c, and of live Weak
\* Handles observing it.
strong_handles(c) == claims_on("shared", object_ctr(c))

weak_handles(c) == claims_on("weak", object_ctr(c))

\* No handle operation is in progress.
quiescent == \A t \in Threads : pc[t] = "idle"

\* Thread t is inside the zero-crossing part of decrement() on ctr: its
\* fetch_sub brought the count to zero and dispose() has not returned.
disposing(t, ctr) ==
    /\ pc[t] \in {"decrement_76", "decrement_78"}
    /\ loc[t].ctr = ctr

\* The cell exists: allocated and not deallocated.
cell_live(c) == allocated[c] /\ freed[c] = 0

----------------------------------------------------------------------------
\* C1: while at least one Strong Handle to a cell is live, the value of the
\* cell is not destructed, and no thread has begun the object-facet disposal.
C1_ValueOutlivesStrongHandles ==
    \A c \in Cells :
        strong_handles(c) > 0 =>
            /\ destructed[c] = 0
            /\ \A t \in Threads : ~disposing(t, object_ctr(c))

\* One Strong Handle is left of several, the value is intact, and another
\* thread is in the middle of a lock() on the same cell.
C1_Witness ==
    \E c \in Cells, t \in Threads :
        /\ strong_handles(c) = 1
        /\ handles[shared_ptr(nullptr, nullptr)] > 0
        /\ pc[t] = "increment_if_nonzero_63"
        /\ loc[t].ctr = object_ctr(c)
        /\ destructed[c] = 0

\* C2: the value destruction runs exactly once: never twice, and once no
\* Strong Handle is left it has run, unless the operation that destroyed the
\* last Strong Handle is still on its way to it.
C2_DestructedExactlyOnce ==
    \A c \in Cells :
        /\ destructed[c] <= 1
        /\ (/\ allocated[c]
            /\ strong_handles(c) = 0
            /\ \A t \in Threads : ~disposing(t, object_ctr(c)))
           => destructed[c] = 1

\* The value is destructed, a Weak Handle still observes the cell and a
\* lock() has given a null Strong Handle.
C2_Witness ==
    \E c \in Cells :
        /\ destructed[c] = 1
        /\ weak_handles(c) > 0
        /\ handles[shared_ptr(nullptr, nullptr)] > 0

\* C3: the deallocation runs at most once, and neither has it run nor is a
\* thread about to run it while a Weak or Strong Handle to the cell is live.
C3_FreedOnceAfterAllHandles ==
    \A c \in Cells :
        /\ freed[c] <= 1
        /\ (\/ freed[c] >= 1
            \/ \E t \in Threads : disposing(t, memory_ctr(c)))
           => (strong_handles(c) = 0 /\ weak_handles(c) = 0)

\* The cell is deallocated, and a (null, moved-from) Weak Handle object is
\* still around.
C3_Witness ==
    \E c \in Cells :
        /\ freed[c] = 1
        /\ handles[weak_ptr(nullptr, nullptr)] > 0

\* C5: the storage-facet count reaches zero (and so the deallocation begins)
\* only after the value destruction has completed.
C5_DestructBeforeFree ==
    \A c \in Cells :
        (/\ allocated[c]
         /\ \/ _count[memory_ctr(c)] = 0
            \/ freed[c] >= 1
            \/ \E t \in Threads : disposing(t, memory_ctr(c)))
        => (/\ destructed[c] = 1
            /\ \A t \in Threads : ~disposing(t, object_ctr(c)))

\* A thread is about to deallocate the cell.
C5_Witness ==
    \E c \in Cells, t \in Threads :
        /\ pc[t] = "decrement_78"
        /\ loc[t].ctr = memory_ctr(c)
        /\ destructed[c] = 1

\* C6 as claimed: at rest, the storage-facet count of a cell that is not
\* deallocated is 1 plus the number of live Weak Handles.
C6_Original ==
    \A c \in Cells :
        (quiescent /\ cell_live(c)) =>
            _count[memory_ctr(c)] = 1 + weak_handles(c)

\* C6 as amended: at rest, the storage-facet count of a cell that is not
\* deallocated is the number of live Weak Handles, plus 1 as long as the
\* object-facet count has not reached zero (the cascade then takes the
\* latent claim back).
C6_StorageCount ==
    \A c \in Cells :
        (quiescent /\ cell_live(c)) =>
            _count[memory_ctr(c)] =
                weak_handles(c) + (IF _count[object_ctr(c)] # 0 THEN 1 ELSE 0)

\* At rest, two Weak Handles hold the cell after the value is gone.
C6_Witness ==
    \E c \in Cells :
        /\ quiescent
        /\ cell_live(c)
        /\ destructed[c] = 1
        /\ weak_handles(c) = 2
        /\ _count[memory_ctr(c)] = 2

lock_returns(t, c, nonnull) ==
    \/ /\ \E self \in HandleValues : self._ctr = object_ctr(c) /\ lock(t, self)
       /\ pc'[t] = "idle"
       /\ nonnull = FALSE
    \/ /\ pc[t] = "increment_if_nonzero_63"
       /\ loc[t].ctr = object_ctr(c)
       /\ increment_if_nonzero_63(t)
       /\ pc'[t] = "idle"
       /\ nonnull = (handles'[shared_ptr(loc[t].self._object, loc[t].ctr)]
                        > handles[shared_ptr(loc[t].self._object, loc[t].ctr)])

\* C4: a lock() racing with the destruction of the last Strong Handle either
\* returns non-null, and then the value is not destructed and no thread has
\* begun to destruct it, or returns null, and then the count has reached
\* zero and the value is destructed or being destructed by the thread that
\* brought it there; and the value is destructed only in steps in which no
\* Strong Handle is live, so not before a handle that lock() returned is
\* destroyed.
C4_LockRaceOneWinner ==
    /\ [][\A t \in Threads, c \in Cells, nonnull \in BOOLEAN :
            lock_returns(t, c, nonnull) =>
                IF nonnull
                THEN /\ destructed'[c] = 0
                     /\ _count'[object_ctr(c)] > 0
                     /\ \A u \in Threads : ~(disposing(u, object_ctr(c)))'
                ELSE /\ _count'[object_ctr(c)] = 0
                     /\ \/ destructed'[c] = 1
                        \/ \E u \in Threads : (disposing(u, object_ctr(c)))']_vars
    /\ [][\A c \in Cells :
            destructed'[c] # destructed[c] =>
                (strong_handles(c) = 0 /\ (strong_handles(c))' = 0)]_vars

\* The race is on: a lock() has loaded a non-zero count, and before its
\* compare-and-swap the last Strong Handle's destructor has brought the
\* count to zero and is about to destruct the value.
C4_Witness ==
    \E c \in Cells, t, u \in Threads :
        /\ pc[t] = "increment_if_nonzero_63"
        /\ loc[t].ctr = object_ctr(c)
        /\ loc[t].count = 1
        /\ _count[object_ctr(c)] = 0
        /\ disposing(u, object_ctr(c))

\* C8: lock() on a null Weak Handle returns a null Strong Handle; on a
\* non-null one it returns non-null exactly if the object-facet count is
\* non-zero at the atomic attempt (the load that finds zero, or the
\* compare-and-swap); a success adds exactly 1 to that count and adopts the
\* pair, a failure changes no count, and no step of lock() aborts.
C8_LockContract ==
    [][\A t \in Threads :
        /\ \A self \in HandleValues :
            lock(t, self) =>
                /\ ~aborted'
                /\ _count' = _count
                /\ IF self._ctr = nullptr \/ _count[self._ctr] = 0
                   THEN /\ pc'[t] = "idle"
                        /\ handles' = put(handles, shared_ptr(nullptr, nullptr))
                   ELSE /\ pc'[t] = "increment_if_nonzero_63"
                        /\ handles' = take(handles, self)
        /\ increment_if_nonzero_63(t) =>
                /\ ~aborted'
                /\ pc'[t] = "idle" =>
                    IF _count[loc[t].ctr] # 0
                    THEN /\ handles' = put(put(handles, loc[t].self),
                                shared_ptr(loc[t].self._object, loc[t].ctr))
                         /\ _count' = [_count EXCEPT ![loc[t].ctr] = @ + 1]
                    ELSE /\ handles' = put(put(handles, loc[t].self),
                                shared_ptr(nullptr, nullptr))
                         /\ _count' = _count
                /\ pc'[t] # "idle" =>
                    /\ _count[loc[t].ctr] # 0
                    /\ _count' = _count
                    /\ handles' = handles]_vars

\* A lock() is at its compare-and-swap, which will fail and be retried: the
\* count it loaded has changed to another non-zero count.
C8_Witness ==
    \E t \in Threads :
        /\ pc[t] = "increment_if_nonzero_63"
        /\ _count[loc[t].ctr] # loc[t].count
        /\ _count[loc[t].ctr] # 0

\* C9: in the scenario, the object-facet count is 1 after make_shared,
\* Clones + 1 after the clones and 1 again after their destruction; once the
\* operation that destroys the last Strong Handle has returned, the value is
\* destructed; from its fetch_sub on no non-null Strong Handle exists (every
\* lock() returns null); the cell is not deallocated while a Weak Handle is
\* live, and it is deallocated once the operation that destroyed the last
\* Weak Handle has returned.
C9_WeakPastLastStrong ==
    LET c == the_cell IN
    /\ script = at_clone => _count[object_ctr(c)] = 1
    /\ script = at_destroy_clone => _count[object_ctr(c)] = Clones + 1
    /\ script \in {at_make_weak, at_destroy_last} =>
           (_count[object_ctr(c)] = 1 /\ destructed[c] = 0)
    /\ script >= at_lock =>
           /\ _count[object_ctr(c)] = 0
           /\ strong_handles(c) = 0
           /\ pc[main_thread] = "idle" => destructed[c] = 1
           /\ (weak_handles(c) = 0 /\ quiescent) => freed[c] = 1
    /\ weak_handles(c) > 0 => freed[c] = 0
    /\ script < at_end => freed[c] = 0

\* The scenario has run to its end: the main thread's lock() has returned
\* a null handle and the destruction of the last Weak Handle has freed the
\* cell.
C9_Witness ==
    /\ script = at_end
    /\ quiescent
    /\ handles[shared_ptr(nullptr, nullptr)] > 0
    /\ destructed[the_cell] = 1
    /\ freed[the_cell] = 1

\* Thread t calls increment() on ctr in this step: a copy of a Strong
\* Handle riding on ctr, or a Weak Handle made from a handle whose
\* counter's holder is ctr.
calls_increment(t, ctr) ==
    \E v \in HandleValues :
        \/ v._ctr = ctr /\ shared_ptr_copy(t, v)
        \/ /\ v._ctr # nullptr
           /\ live(v._ctr)
           /\ _holder[v._ctr] = ctr
           /\ weak_ptr_from_shared(t, v) \/ weak_ptr_copy(t, v)

\* C10: increment() on a (not deallocated) counter whose count is zero ends
\* in the assertion failure, and the handle that was to hold the claim does
\* not come to be.
C10_IncrementOfDeadCounterAborts ==
    [][\A t \in Threads, ctr \in Ctrs :
        (live(ctr) /\ _count[ctr] = 0 /\ calls_increment(t, ctr)) =>
            (aborted' /\ handles' = handles)]_vars

\* The program has aborted with the object-facet count of a destructed
\* value back at 1: a Strong Handle adopted on the dead counter was copied.
C10_Witness ==
    \E c \in Cells :
        /\ aborted
        /\ cell_live(c)
        /\ destructed[c] = 1
        /\ _count[object_ctr(c)] = 1
        /\ handles[shared_ptr(c, object_ctr(c))] > 0

\* C11: release() changes no count, starts no decrement, nulls the handle
\* and hands its pair out; the adopting constructor changes no count and
\* makes a handle of exactly the pair; and adopting the released pair in the
\* state release() leaves gives the state that moving the handle gives (the
\* source null, a new handle with the source's pointers, every count as it
\* was).
C11_ReleaseAdoptRoundTrip ==
    [][\A t \in Threads, v \in HandleValues :
        LET pair == <<v._object, v._ctr>>
            null == shared_ptr(nullptr, nullptr)
            moved == put(put(take(handles, v), null), v)
        IN  /\ release(t, v) =>
                /\ _count' = _count
                /\ pc' = pc
                /\ ~aborted'
                /\ handles' = put(take(handles, v), null)
                /\ pair \in raw'
                /\ put(handles', shared_ptr(pair[1], pair[2])) = moved
            /\ (v.kind = "shared" /\ shared_ptr_adopt(t, pair)) =>
                /\ _count' = _count
                /\ pc' = pc
                /\ ~aborted'
                /\ handles' = put(handles, v)
            /\ shared_ptr_move(t, v) =>
                /\ _count' = _count
                /\ handles' = moved]_vars

\* The round trip is done: the caller holds the pair of the cell, the
\* released handle is null, and a Strong Handle holds the one claim there is.
C11_Witness ==
    \E c \in Cells :
        /\ quiescent
        /\ <<c, object_ctr(c)>> \in raw
        /\ handles[shared_ptr(nullptr, nullptr)] > 0
        /\ handles[shared_ptr(c, object_ctr(c))] = 1
        /\ _count[object_ctr(c)] = 1
        /\ destructed[c] = 0

\* Thread t's step consumes the by-value argument v of a cast or of the
\* converting constructor.
casts(t, v) ==
    \/ static_pointer_cast(t, v)
    \/ handle_cast(t, v)
    \/ shared_ptr_convert(t, v)

\* C12: a cast (static_pointer_cast, handle_cast, the converting
\* constructor) changes the count of no counter and starts no decrement; its
\* result has the pointers of the argument, so the same counter; the argument
\* is left null; and the destruction of a null Strong Handle changes no
\* count and starts no decrement.
C12_CastsTransferClaim ==
    [][\A t \in Threads, v \in HandleValues :
        LET null == shared_ptr(nullptr, nullptr)
        IN  /\ casts(t, v) =>
                /\ _count' = _count
                /\ pc' = pc
                /\ ~aborted'
                /\ handles' = put(put(take(handles, v), null),
                                  shared_ptr(v._object, v._ctr))
                /\ v # null =>
                    /\ handles'[v] = handles[v]
                    /\ handles'[null] = handles[null] + 1
            /\ shared_ptr_dtor(t, null) =>
                /\ _count' = _count
                /\ pc' = pc
                /\ loc' = loc]_vars

\* After a cast of the only Strong Handle of a cell: the consumed argument
\* is null, the result holds the claim, and the count is still 1.
C12_Witness ==
    \E c \in Cells :
        /\ quiescent
        /\ cell_live(c)
        /\ handles[shared_ptr(nullptr, nullptr)] > 0
        /\ handles[shared_ptr(c, object_ctr(c))] = 1
        /\ _count[object_ctr(c)] = 1
        /\ _count[memory_ctr(c)] = 1
        /\ weak_handles(c) = 0

\* C13: the move constructor of a Strong Handle or of a Weak Handle changes
\* no count and starts no decrement, leaves the source null and gives the
\* destination the source's pointers; and the destruction of a null
\* (moved-from) handle of either kind changes no count.
C13_MoveNoAtomicTraffic ==
    [][\A t \in Threads, v \in HandleValues :
        LET null == [v EXCEPT !._object = nullptr, !._ctr = nullptr]
        IN  /\ (shared_ptr_move(t, v) \/ weak_ptr_move(t, v)) =>
                /\ _count' = _count
                /\ pc' = pc
                /\ ~aborted'
                /\ handles' = put(put(take(handles, v), null), v)
            /\ (shared_ptr_dtor(t, null) \/ weak_ptr_dtor(t, null)) =>
                /\ _count' = _count
                /\ pc' = pc
                /\ handles' = take(handles, null)]_vars

\* A Strong Handle and a Weak Handle of a cell have both been moved from:
\* the two null handles stand beside the two that hold the claims.
C13_Witness ==
    \E c \in Cells :
        /\ quiescent
        /\ handles[shared_ptr(nullptr, nullptr)] > 0
        /\ handles[weak_ptr(nullptr, nullptr)] > 0
        /\ strong_handles(c) = 1
        /\ weak_handles(c) = 1
        /\ _count[object_ctr(c)] = 1
        /\ _count[memory_ctr(c)] = 2

\* C14 as claimed: in every interleaving (with threads that keep running),
\* an operation that a thread has begun completes.
C14_Original ==
    \A t \in Threads : (pc[t] # "idle") ~> (pc[t] = "idle")

\* A step of a thread other than t changes the count of the counter that
\* t's compare-and-swap loop is on.
other_changes_count(t) ==
    /\ pc[t] = "increment_if_nonzero_63"
    /\ _count'[loc[t].ctr] # _count[loc[t].ctr]
    /\ pc'[t] = pc[t]
    /\ loc'[t] = loc[t]

\* C14 as amended: no operation waits (a thread inside an operation always
\* has a step it can take); every operation outside the compare-and-swap
\* loop of lock() completes; a compare-and-swap fails and is retried only
\* when the count differs from the one loaded, and the retry goes on from
\* the count it found; and lock() completes in every behaviour in which the
\* other threads at some point stop changing the count it is on.
C14_NonBlocking ==
    /\ [](\A t \in Threads : (running /\ pc[t] # "idle") => ENABLED proceed(t))
    /\ \A t \in Threads :
        (pc[t] \notin {"idle", "increment_if_nonzero_63"}) ~> (pc[t] = "idle")
    /\ [][\A t \in Threads :
            (increment_if_nonzero_63(t) /\ pc'[t] # "idle") =>
                /\ _count[loc[t].ctr] # loc[t].count
                /\ _count[loc[t].ctr] # 0
                /\ loc'[t].count = _count[loc[t].ctr]]_vars
    /\ \A t \in Threads :
        <>[][~other_changes_count(t)]_vars =>
            ((pc[t] # "idle") ~> (pc[t] = "idle"))

\* A lock() is at a compare-and-swap that will fail, after an earlier one
\* has failed already: it loaded 1, was retried with 2, and the count is 1
\* again.
C14_Witness ==
    \E t \in Threads, c \in Cells :
        /\ pc[t] = "increment_if_nonzero_63"
        /\ loc[t].ctr = object_ctr(c)
        /\ loc[t].count = 2
        /\ _count[object_ctr(c)] = 1
        /\ destructed[c] = 0

\* C15: the construction of a Weak Handle from a Strong Handle whose
\* counter has no holder fails the assertion: the program is aborted, no
\* count has changed and no Weak Handle has come to be.
C15_WeakFromBareCounterAborts ==
    [][\A t \in Threads, v \in HandleValues :
        (/\ v._ctr # nullptr
         /\ live(v._ctr)
         /\ _holder[v._ctr] = nullptr
         /\ weak_ptr_from_shared(t, v)) =>
            /\ aborted'
            /\ _count' = _count
            /\ handles' = handles]_vars

\* The program has aborted with a Strong Handle adopted on the memory facet
\* (a counter without a holder) of a cell whose counts are untouched and
\* whose value is intact: no other assertion fails there.
C15_Witness ==
    \E c \in Cells :
        /\ aborted
        /\ quiescent
        /\ handles[shared_ptr(c, memory_ctr(c))] > 0
        /\ cell_live(c)
        /\ destructed[c] = 0
        /\ _count[memory_ctr(c)] = 1
        /\ _count[object_ctr(c)] = 1

\* Thread t's step enters decrement() on ctr: the destructor of a Strong
\* Handle riding on ctr, the destructor of a Weak Handle whose counter's
\* holder is ctr, or the cascade of a decrement() whose recorded holder is
\* ctr.
decrements(t, ctr) ==
    \/ \E v \in HandleValues : v._ctr = ctr /\ shared_ptr_dtor(t, v)
    \/ \E v \in HandleValues :
        /\ v._ctr # nullptr
        /\ live(v._ctr)
        /\ _holder[v._ctr] = ctr
        /\ weak_ptr_dtor(t, v)
    \/ /\ pc[t] = "decrement_81"
       /\ loc[t].h = ctr
       /\ decrement_81(t)

\* C16: a decrement() subtracts 1 and, if the count was above 1, returns
\* with nothing disposed; if it was 1, it reads the holder (of a cell that
\* is not deallocated) with nothing disposed yet, then runs the disposal of
\* its facet once, then decrements the recorded holder if there is one and
\* else returns, disposing nothing more.  And no step of the program
\* accesses a field of a deallocated cell.
C16_DecrementOrder ==
    /\ [][\A t \in Threads, ctr \in Ctrs :
            LET c == cell_of(ctr)
            IN  /\ decrements(t, ctr) =>
                    /\ live(ctr)
                    /\ _count' = [_count EXCEPT ![ctr] = @ - 1]
                    /\ destructed' = destructed
                    /\ freed' = freed
                    /\ IF _count[ctr] > 1
                       THEN pc'[t] = "idle"
                       ELSE /\ _count[ctr] = 1
                            /\ pc'[t] = "decrement_76"
                            /\ loc'[t].ctr = ctr
                /\ (loc[t].ctr = ctr /\ decrement_76(t)) =>
                    /\ live(ctr)
                    /\ loc'[t].h = _holder[ctr]
                    /\ pc'[t] = "decrement_78"
                    /\ _count' = _count
                    /\ destructed' = destructed
                    /\ freed' = freed
                /\ (loc[t].ctr = ctr /\ decrement_78(t)) =>
                    /\ live(ctr)
                    /\ loc' = loc
                    /\ pc'[t] = "decrement_81"
                    /\ _count' = _count
                    /\ IF is_object_ctr(ctr)
                       THEN /\ destructed' = [destructed EXCEPT ![c] = @ + 1]
                            /\ freed' = freed
                       ELSE /\ freed' = [freed EXCEPT ![c] = @ + 1]
                            /\ destructed' = destructed
                /\ (loc[t].ctr = ctr /\ decrement_81(t)) =>
                    /\ destructed' = destructed
                    /\ freed' = freed
                    /\ IF loc[t].h = nullptr
                       THEN pc'[t] = "idle" /\ _count' = _count
                       ELSE /\ live(loc[t].h)
                            /\ loc[t].h = memory_ctr(c)]_vars
    /\ [](~uaf)

\* The thread that has deallocated the cell is at `if(h)` with the null
\* holder it recorded before the disposal; a moved-from Weak Handle is still
\* around.
C16_Witness ==
    \E t \in Threads, c \in Cells :
        /\ pc[t] = "decrement_81"
        /\ loc[t].ctr = memory_ctr(c)
        /\ loc[t].h = nullptr
        /\ freed[c] = 1
        /\ handles[weak_ptr(nullptr, nullptr)] > 0
        /\ ~uaf

\* C17: when the storage-facet disposal is about to deallocate a cell, and
\* ever after, the object-facet count and the storage-facet count of the
\* cell are both 0 (so the assertions of the two counter destructors hold).
C17_CountersDieAtZero ==
    \A c \in Cells :
        (\/ freed[c] >= 1
         \/ \E t \in Threads :
                pc[t] = "decrement_78" /\ loc[t].ctr = memory_ctr(c))
        => (_count[object_ctr(c)] = 0 /\ _count[memory_ctr(c)] = 0)

\* The destructor of the last Weak Handle is about to deallocate the cell
\* while another thread holds the null Strong Handle a lock() returned.
C17_Witness ==
    \E t \in Threads, c \in Cells :
        /\ pc[t] = "decrement_78"
        /\ loc[t].ctr = memory_ctr(c)
        /\ loc[t].h = nullptr
        /\ weak_handles(c) = 0
        /\ handles[shared_ptr(nullptr, nullptr)] > 0
        /\ ~aborted

\* The counter a handle with the fields of v holds its claim on: its own
\* counter for a Strong Handle, the holder of its counter for a Weak Handle.
claimed_ctr(v) ==
    IF v._ctr = nullptr THEN nullptr
    ELSE IF v.kind = "shared" THEN v._ctr
    ELSE _holder[v._ctr]

\* The counts with n added to the count of ctr (none if ctr is null).
count_plus(ctr, n) ==
    IF ctr = nullptr THEN _count ELSE [_count EXCEPT ![ctr] = @ + n]

handle_values ==
    {v \in HandleValues : handles[v] > 0}
        \cup {loc[t].self : t \in Threads} \cup {loc[t].other : t \in Threads}

\* C19: every Strong Handle has its value pointer and its counter pointer
\* both null or both non-null, and its boolean test is true exactly when
\* its destructor will decrement a counter, which is then the object
\* counter of a cell still allocated whose count includes that claim.
C19_PointersInLockStep ==
    \A v \in handle_values :
        v.kind = "shared" =>
            /\ (v._object = nullptr) <=> (v._ctr = nullptr)
            /\ operator_bool(v) <=>
                /\ v._ctr # nullptr
                /\ v._ctr = object_ctr(v._object)
                /\ live(v._ctr)
                /\ running => _count[v._ctr] >= 1

\* After a release() of a copy: a null Strong Handle, a Strong Handle that
\* tests true, and the released pair with its claim, all at once.
C19_Witness ==
    \E c \in Cells :
        /\ handles[shared_ptr(nullptr, nullptr)] > 0
        /\ handles[shared_ptr(c, object_ctr(c))] > 0
        /\ <<c, object_ctr(c)>> \in raw
        /\ _count[object_ctr(c)] = 2

\* C20: with handles made by make_shared and used through construction,
\* assignment, destruction, casts and lock() only, no assertion of a
\* counter fails: every change of the count of an allocated counter is a
\* step of one up or down from a count of at least 1, and a cell is
\* deallocated only with both counts at 0.
C20_NoAssertionReachable ==
    /\ [](~aborted)
    /\ [][\A ctr \in Ctrs :
            (allocated[cell_of(ctr)] /\ _count'[ctr] # _count[ctr]) =>
                /\ _count[ctr] >= 1
                /\ _count'[ctr] \in {_count[ctr] + 1, _count[ctr] - 1}]_vars
    /\ [][\A c \in Cells :
            freed'[c] # freed[c] =>
                (_count[object_ctr(c)] = 0 /\ _count[memory_ctr(c)] = 0)]_vars

\* A cell has gone through its whole life, and a Strong Handle left null by
\* a move or returned by a failed lock() is still there; no assertion has
\* failed.
C20_Witness ==
    \E c \in Cells :
        /\ destructed[c] = 1
        /\ freed[c] = 1
        /\ handles[shared_ptr(nullptr, nullptr)] > 0
        /\ \A t \in Threads : pc[t] = "idle"
        /\ ~aborted

====
